---------------------------- MODULE Spec2Model ----------------------------
(***************************************************************************)
(* Model of LSTM.ipynb: the PID controller pid(), the sequence-model       *)
(* controller lstm(), the setpoint schedule cells and the three clocked    *)
(* control loops (data collection, Part A, Part B).                        *)
(*                                                                         *)
(* Python floats are modelled as a binary floating-point format with       *)
(* MantBits bits of mantissa, round-to-nearest-even, gradual underflow at  *)
(* 2^Emin, overflow to infinity above MaxFin, and NaN.  A float is a pair  *)
(* <<n, d>>: a reduced fraction n/d with d a power of two when d > 0,      *)
(* <<1,0>> is +inf, <<-1,0>> is -inf and <<0,0>> is NaN.                    *)
(***************************************************************************)
EXTENDS Integers, Sequences, FiniteSets, TLC

\* ------------------------------------------------------------------------
\* Bounds of the floating-point format (binary64 has 53 and 1023).
MantBits == 7
Emax == 5
Emin == 0 - Emax - 2

Abs(x) == IF x < 0 THEN 0 - x ELSE x
Sign(x) == IF x < 0 THEN 0 - 1 ELSE 1

NaN == <<0, 0>>
PInf == <<1, 0>>
NInf == <<0 - 1, 0>>
Zero == <<0, 1>>

IsNaN(x) == x = NaN
IsInf(x) == x[2] = 0 /\ x[1] # 0
IsFin(x) == x[2] > 0

\* Largest finite value, (2^MantBits - 1) * 2^Emax.
MaxFin == (2^MantBits - 1) * 2^Emax

RECURSIVE ExpUp(_, _, _)
\* Least e >= 0 with a < d * 2^(MantBits + e)
ExpUp(a, d, e) == IF a < d * 2^(MantBits + e) THEN e ELSE ExpUp(a, d, e + 1)

RECURSIVE ExpDown(_, _, _)
\* Least e in Emin..0 with a * 2^(-e) < d * 2^MantBits, searching downwards from e.
ExpDown(a, d, e) ==
    IF e = Emin THEN e
    ELSE IF a * 2^(1 - e) < d * 2^MantBits THEN ExpDown(a, d, e - 1)
    ELSE e

\* Exponent of the float nearest to a/d > 0, before a carry of the mantissa.
Exponent(a, d) ==
    IF a >= d * 2^MantBits THEN ExpUp(a, d, 0) ELSE ExpDown(a, d, 0)

RECURSIVE Reduce(_, _)
\* The fraction m / 2^k in lowest terms.
Reduce(m, k) ==
    IF k > 0 /\ m % 2 = 0 THEN Reduce(m \div 2, k - 1) ELSE <<m, 2^k>>

\* Round the non-negative quotient num/den to an integer, ties to even.
RoundHalfEven(num, den) ==
    IF 2 * (num % den) > den THEN (num \div den) + 1
    ELSE IF 2 * (num % den) = den THEN (num \div den) + ((num \div den) % 2)
    ELSE num \div den

\* Mantissa of a/d at exponent e.
Mantissa(a, d, e) ==
    IF e >= 0 THEN RoundHalfEven(a, d * 2^e) ELSE RoundHalfEven(a * 2^(0 - e), d)

\* The float s * m * 2^e (s = 1 or -1, 0 < m <= 2^MantBits): infinite when
\* the exponent passes Emax.
Pack(s, m, e) ==
    IF m = 2^MantBits THEN
        (IF e + 1 > Emax THEN <<s, 0>>
         ELSE IF e + 1 >= 0 THEN <<s * 2^(MantBits - 1) * 2^(e + 1), 1>>
         ELSE <<s * Reduce(2^(MantBits - 1), 0 - e - 1)[1], Reduce(2^(MantBits - 1), 0 - e - 1)[2]>>)
    ELSE IF e > Emax THEN <<s, 0>>
    ELSE IF e >= 0 THEN <<s * m * 2^e, 1>>
    ELSE <<s * Reduce(m, 0 - e)[1], Reduce(m, 0 - e)[2]>>

\* The float nearest to the rational n/d (d > 0): the result of every
\* arithmetic operation is rounded this way.
Rnd(n, d) ==
    IF n = 0 THEN Zero
    ELSE CHOOSE r \in {Pack(Sign(n), Mantissa(Abs(n), d, e), e) :
                          e \in {Exponent(Abs(n), d)}} : TRUE

\* float(k) for an integer k
F(k) == Rnd(k, 1)

FNeg(x) == <<0 - x[1], x[2]>>

\* The operations below take their operands as values (x, y range over
\* one-element sets), so that an operand is computed once.

AddV(x, y) ==
    IF IsNaN(x) \/ IsNaN(y) THEN NaN
    ELSE IF IsInf(x) /\ IsInf(y) THEN (IF x = y THEN x ELSE NaN)
    ELSE IF IsInf(x) THEN x
    ELSE IF IsInf(y) THEN y
    ELSE Rnd(x[1] * y[2] + y[1] * x[2], x[2] * y[2])

\* x + y
FAdd(x0, y0) == CHOOSE r \in {AddV(x, y) : x \in {x0}, y \in {y0}} : TRUE

\* x - y
FSub(x0, y0) == CHOOSE r \in {AddV(x, FNeg(y)) : x \in {x0}, y \in {y0}} : TRUE

MulV(x, y) ==
    IF IsNaN(x) \/ IsNaN(y) THEN NaN
    ELSE IF IsInf(x) \/ IsInf(y)
         THEN (IF x[1] = 0 \/ y[1] = 0 THEN NaN
               ELSE IF Sign(x[1]) = Sign(y[1]) THEN PInf ELSE NInf)
    ELSE Rnd(x[1] * y[1], x[2] * y[2])

\* x * y
FMul(x0, y0) == CHOOSE r \in {MulV(x, y) : x \in {x0}, y \in {y0}} : TRUE

DivV(x, y) ==
    IF IsNaN(x) \/ IsNaN(y) THEN NaN
    ELSE IF IsInf(x) THEN (IF IsInf(y) THEN NaN
                           ELSE IF Sign(x[1]) = Sign(y[1]) THEN PInf ELSE NInf)
    ELSE IF IsInf(y) THEN Zero
    ELSE Rnd(Sign(y[1]) * x[1] * y[2], Abs(y[1]) * x[2])

\* x / y for y # 0 (a zero divisor raises ZeroDivisionError, see pid)
FDiv(x0, y0) == CHOOSE r \in {DivV(x, y) : x \in {x0}, y \in {y0}} : TRUE

LtV(x, y) ==
    IF IsNaN(x) \/ IsNaN(y) THEN FALSE
    ELSE IF IsInf(x) THEN x = NInf /\ y # NInf
    ELSE IF IsInf(y) THEN y = PInf
    ELSE x[1] * y[2] < y[1] * x[2]

\* x < y: every comparison with NaN is false
FLt(x0, y0) == \E x \in {x0}, y \in {y0} : LtV(x, y)

\* x > y
FGt(x0, y0) == \E x \in {x0}, y \in {y0} : LtV(y, x)

\* x >= y
FGe(x0, y0) == \E x \in {x0}, y \in {y0} : ~IsNaN(x) /\ ~IsNaN(y) /\ ~LtV(x, y)

\* x <= y
FLe(x0, y0) == \E x \in {x0}, y \in {y0} : ~IsNaN(x) /\ ~IsNaN(y) /\ ~LtV(y, x)

\* Python's min(a, b) and max(a, b): the first argument unless the second
\* is strictly smaller (larger).
PyMin(a0, b0) == CHOOSE r \in {IF LtV(b, a) THEN b ELSE a : a \in {a0}, b \in {b0}} : TRUE
PyMax(a0, b0) == CHOOSE r \in {IF LtV(a, b) THEN b ELSE a : a \in {a0}, b \in {b0}} : TRUE

\* ------------------------------------------------------------------------
\* State of the notebook.
VARIABLES
    Kc, tauI, tauD,      \* PID parameters (globals read by pid)
    fn, args, ret,       \* a direct call of pid() or lstm(): function, arguments, result
    cell,                \* the schedule cell being run: "train", "test" or "none"
    spc,                 \* position in the schedule cell
    loops,               \* number of cycles
    Tsp,                 \* setpoint array (Tsp1 in the training cells), indexed 0..loops-1
    start, end,          \* the schedule cell's segment bounds
    roomT,               \* the temperature lab.T1 gave when the schedule cell built Tsp
    run,                 \* the control loop being run: "collect", "partA", "partB", "none"
    pc,                  \* position in the with-block of the control loop
    nyield,              \* number of ticks tclab.clock has yielded in this run
    i, t, prev_time, dt, \* loop index, timestamp, previous timestamp, time step
    tm, T1, Qpid, Qlstm, \* trajectory arrays (Q1 of the training run is kept in Qpid)
    ierr,                \* integral error carried by the loop
    heater,              \* the value last written to the heater through lab.Q1
    exc,                 \* the exception that ended the with-block, "" when none
    pidArgs,             \* arguments of the latest pid() call of the run
    X,                   \* feature window the tick's lstm() call handed to the model
    s_x, s_y,            \* the MinMaxScalers of the inputs and of the output
    X_lstm, y_lstm       \* training windows and their labels

fnVars == <<fn, args, ret>>
schedVars == <<cell, spc, start, end, roomT>>
loopVars == <<run, pc, nyield, i, t, prev_time, dt, tm, T1, Qpid, Qlstm, ierr,
              heater, exc, pidArgs, X>>
trainVars == <<s_x, s_y, X_lstm, y_lstm>>
vars == <<Kc, tauI, tauD, trainVars, fnVars, schedVars, loops, Tsp, loopVars>>

\* Each input uses the last 'window' samples (15 in the notebook).
window == 2

\* ------------------------------------------------------------------------
\* PID controller

op0 == F(0)
ophi == F(100)
oplo == F(0)

\* The literal 1e-8 of "if dt>=1e-8": a positive value below every time
\* step of the clock; here the smallest positive float.
DtEps == <<1, 2^(0 - Emin)>>

\* The output op = op0 + P + I + D with the terms it is the sum of.
PidOut(I, q) ==
    [inc |-> q.inc, P |-> q.P, I |-> I, D |-> q.D,
     op |-> FAdd(FAdd(FAdd(op0, q.P), I), q.D)]

\* The terms pid() computes before the anti-reset-windup branch: the
\* increment KI * error * dt, P, the updated integral I, D and the output.
PidTerms(sp, pv, pv_last, ierr0, dt0) ==
    CHOOSE r \in
      {PidOut(FAdd(ierr0, q.inc), q) :
         q \in {[inc |-> FMul(FMul(FDiv(Kc, tauI), FSub(sp, pv)), dt0),
                 P |-> FMul(Kc, FSub(sp, pv)),
                 D |-> FMul(FNeg(FMul(Kc, tauD)),
                            IF FGe(dt0, DtEps) THEN FDiv(FSub(pv, pv_last), dt0)
                            ELSE Zero)]}} : TRUE

\* "if op < oplo or op > ophi"
Saturated(op) == FLt(op, oplo) \/ FGt(op, ophi)

PidRaise == [raised |-> "ZeroDivisionError", op |-> NaN, P |-> NaN, I |-> NaN, D |-> NaN]

\* pid without the clipping of the output
pid_NoClip(sp, pv, pv_last, ierr0, dt0) ==
    IF tauI = Zero THEN PidRaise
    ELSE CHOOSE o \in
           {IF Saturated(r.op)
            THEN [raised |-> "", op |-> r.op,
                  P |-> r.P, I |-> FSub(r.I, r.inc), D |-> r.D]
            ELSE [raised |-> "", op |-> r.op, P |-> r.P, I |-> r.I, D |-> r.D] :
              r \in {PidTerms(sp, pv, pv_last, ierr0, dt0)}} : TRUE

\* def pid(sp,pv,pv_last,ierr,dt): returns [op,P,I,D]; Kc / tauI raises
\* ZeroDivisionError when tauI is zero.
pid(sp, pv, pv_last, ierr0, dt0) ==
    IF tauI = Zero THEN PidRaise
    ELSE CHOOSE o \in
           {IF Saturated(r.op)
            THEN [raised |-> "", op |-> PyMax(oplo, PyMin(ophi, r.op)),
                  P |-> r.P, I |-> FSub(r.I, r.inc), D |-> r.D]
            ELSE [raised |-> "", op |-> r.op, P |-> r.P, I |-> r.I, D |-> r.D] :
              r \in {PidTerms(sp, pv, pv_last, ierr0, dt0)}} : TRUE

\* ------------------------------------------------------------------------
\* LSTM controller

\* np.clip(x, lo, hi): NaN stays NaN
Clip(x, lo, hi) ==
    IF IsNaN(x) THEN NaN
    ELSE IF FLt(x, lo) THEN lo
    ELSE IF FGt(x, hi) THEN hi
    ELSE x

\* the columns stacked as (error, setpoint)
Features_ErrFirst(T1_m, Tsp_m) ==
    [k \in 1..Len(Tsp_m) |-> <<FSub(Tsp_m[k], T1_m[k]), Tsp_m[k]>>]

\* np.vstack((Tsp_m,err)).T with err = Tsp_m - T1_m: one (setpoint, error)
\* row per sample, in the order of the arrays.
Features(T1_m, Tsp_m) ==
    [k \in 1..Len(Tsp_m) |-> <<Tsp_m[k], FSub(Tsp_m[k], T1_m[k])>>]

\* def lstm(T1_m, Tsp_m).  out is what the scalers and the model give for the
\* window: the unscaled prediction out.y, or an error of the library
\* (s_x.transform rejects an empty array; model.predict may reject a window
\* whose length is not the one it was built with).  The function itself
\* checks nothing about the window.
lstm(T1_m, Tsp_m, out) ==
    IF Len(Tsp_m) = 0 \/ out.raised
    THEN [raised |-> "ValueError", X |-> Features(T1_m, Tsp_m), Q1c |-> NaN]
    ELSE [raised |-> "", X |-> Features(T1_m, Tsp_m), Q1c |-> Clip(out.y, F(0), F(100))]

\* ------------------------------------------------------------------------
\* Inputs

Huge == <<MaxFin, 1>>

\* Temperatures lab.T1 returns, and setpoint levels
MeasVals == {F(20), F(25)}
SpVals == {F(25), F(40)}

\* (Kc, tauI, tauD): the notebook's 6.0, 75.0, 0.0, a derivative gain, and
\* gains the specification calls invalid.
Gains == {<<F(6), F(75), F(0)>>, <<F(6), F(75), F(1)>>,
          <<F(0 - 6), F(75), F(0)>>, <<F(6), F(0), F(0)>>, <<F(6), F(0 - 75), F(0)>>}

ValidGains == FGt(Kc, Zero) /\ FGt(tauI, Zero)

\* Unscaled predictions of the model
RawPreds == {FNeg(Huge), F(0 - 50), F(0), F(40), F(100), F(250), Huge, PInf, NInf}

PredOutcomes(len) ==
    {[raised |-> FALSE, y |-> v] : v \in RawPreds}
        \cup (IF len # window THEN {[raised |-> TRUE, y |-> NaN]} ELSE {})

PidInputs ==
    [sp : SpVals \cup {F(0), Huge}, pv : MeasVals \cup {Huge, FNeg(Huge)},
     pv_last : {F(0), F(20)}, ierr : {F(0), <<13, 128>>, F(40)},
     dt : {Zero, DtEps, F(1), F(2)}]

Windows(len) == [1..len -> MeasVals] \X [1..len -> SpVals]

LstmInputs ==
    UNION {{[T1_m |-> w[1], Tsp_m |-> w[2], out |-> o] :
               w \in Windows(len), o \in PredOutcomes(len)} : len \in 0..window}

\* ------------------------------------------------------------------------
\* Scaling and the training windows ("Feature selection, scaling, and
\* formatting data to LSTM input format")

ColMin(rows, c) ==
    CHOOSE v \in {rows[j][c] : j \in 1..Len(rows)} :
        \A j \in 1..Len(rows) : ~LtV(rows[j][c], v)
ColMax(rows, c) ==
    CHOOSE v \in {rows[j][c] : j \in 1..Len(rows)} :
        \A j \in 1..Len(rows) : ~LtV(v, rows[j][c])

\* MinMaxScaler: a column whose range is zero is scaled by 1
ScaleOf(rows, c) ==
    CHOOSE r \in {FDiv(F(1), IF d = Zero THEN F(1) ELSE d) :
                     d \in {FSub(ColMax(rows, c), ColMin(rows, c))}} : TRUE

\* MinMaxScaler().fit(rows) for a non-empty array: the attributes scale_
\* and min_ per column
MinMaxFit(rows) ==
    [scale_ |-> [c \in 1..Len(rows[1]) |-> ScaleOf(rows, c)],
     min_ |-> [c \in 1..Len(rows[1]) |->
                 FSub(Zero, FMul(ColMin(rows, c), ScaleOf(rows, c)))]]

\* s.transform(rows): x * scale_ + min_ per column
Transform(s, rows) ==
    [j \in 1..Len(rows) |->
        [c \in 1..Len(rows[j]) |-> FAdd(FMul(rows[j][c], s.scale_[c]), s.min_[c])]]

\* df['err'] = df['Tsp'] - df['T1']; X = df[['Tsp','err']].values, for the
\* first n samples
TrainRows(T1a, Tspa, n) ==
    [j \in 1..n |-> <<Tspa[j], FSub(Tspa[j], T1a[j])>>]

\* y = df[['Q1']].values
LabelRows(Q1a, n) == [j \in 1..n |-> <<Q1a[j]>>]

\* for i in range(window,len(df)): X_lstm.append(Xs[i-window:i]): the
\* windows for i = window, ..., Len(Xs)-1
TrainWindows(Xs) ==
    [m \in 1..(IF Len(Xs) > window THEN Len(Xs) - window ELSE 0) |->
        SubSeq(Xs, m, m + window - 1)]

\* ... y_lstm.append(ys[i])
TrainLabels(ys) ==
    [m \in 1..(IF Len(ys) > window THEN Len(ys) - window ELSE 0) |-> ys[m + window]]

\* A recorded training run of SampleLen samples
SampleLen == 4
SampleT1 == [j \in 1..SampleLen |-> IF j % 2 = 1 THEN F(20) ELSE F(25)]
SampleTsp == [j \in 1..SampleLen |-> IF j = 1 THEN F(25) ELSE F(40)]
SampleQ1 == [j \in 1..SampleLen |-> IF j = 1 THEN F(0) ELSE F(100)]

\* s_x, s_y before the scaling cell has run
NoScaler == [scale_ |-> <<>>, min_ |-> <<>>]
NotTrained == s_x = NoScaler /\ s_y = NoScaler /\ X_lstm = <<>> /\ y_lstm = <<>>

\* s_x = MinMaxScaler(); Xs = s_x.fit_transform(X); X_lstm from Xs
\* (likewise s_y, ys, y_lstm): <<the fitted scaler, the windows>>
FitAndWindow(rows) ==
    CHOOSE r \in {<<s, TrainWindows(Transform(s, rows))>> : s \in {MinMaxFit(rows)}} : TRUE
FitAndLabel(rows) ==
    CHOOSE r \in {<<s, TrainLabels(Transform(s, rows))>> : s \in {MinMaxFit(rows)}} : TRUE

\* the scaling cell run on the first n samples of a training run:
\* <<s_x, X_lstm, s_y, y_lstm>>
Prepared(T1a, Tspa, Q1a, n) ==
    FitAndWindow(TrainRows(T1a, Tspa, n)) \o FitAndLabel(LabelRows(Q1a, n))

SamplePrepared == Prepared(SampleT1, SampleTsp, SampleQ1, SampleLen)

TrainedOnSample ==
    /\ s_x = SamplePrepared[1] /\ X_lstm = SamplePrepared[2]
    /\ s_y = SamplePrepared[3] /\ y_lstm = SamplePrepared[4]

\* ------------------------------------------------------------------------
\* Idle values of the parts a specification does not run

NoRet == [raised |-> "pending"]
NoPidArgs == [sp |-> Zero, pv |-> Zero, pv_last |-> Zero, ierr |-> Zero, dt |-> Zero]

FnIdle == fn = "none" /\ args = <<>> /\ ret = NoRet
SchedIdle == cell = "none" /\ spc = "done" /\ start = 0 /\ end = 0 /\ roomT = Zero
LoopIdle ==
    /\ run = "none" /\ pc = "idle" /\ nyield = 0
    /\ i = 0 /\ t = Zero /\ prev_time = Zero /\ dt = Zero
    /\ tm = <<>> /\ T1 = <<>> /\ Qpid = <<>> /\ Qlstm = <<>>
    /\ ierr = Zero /\ heater = Zero /\ exc = "" /\ pidArgs = NoPidArgs /\ X = <<>>

\* ------------------------------------------------------------------------
\* Direct calls of the two controller functions

InitFn ==
    /\ TrainedOnSample
    /\ \E g \in Gains : Kc = g[1] /\ tauI = g[2] /\ tauD = g[3]
    /\ \/ fn = "pid" /\ args \in PidInputs
       \/ fn = "lstm" /\ args \in LstmInputs
    /\ ret = NoRet
    /\ SchedIdle /\ loops = 0 /\ Tsp = <<>>
    /\ LoopIdle

CallPid ==
    /\ fn = "pid" /\ ret = NoRet
    /\ ret' = pid(args.sp, args.pv, args.pv_last, args.ierr, args.dt)
    /\ UNCHANGED <<Kc, tauI, tauD, trainVars, fn, args, schedVars, loops, Tsp, loopVars>>

CallLstm ==
    /\ fn = "lstm" /\ ret = NoRet
    /\ ret' = lstm(args.T1_m, args.Tsp_m, args.out)
    /\ UNCHANGED <<Kc, tauI, tauD, trainVars, fn, args, schedVars, loops, Tsp, loopVars>>

NextFn == CallPid \/ CallLstm

SpecFn == InitFn /\ [][NextFn]_vars

\* ------------------------------------------------------------------------
\* Properties of the two controller functions (SpecFn)

\* 0 <= x <= 100, which no NaN satisfies
InBounds(x) == FGe(x, F(0)) /\ FLe(x, F(100))

\* C1: for every input the action pid() returns (with valid gains) is
\* within [0,100], and for every raw model prediction the action lstm()
\* returns is within [0,100].
C1_ActionsWithinBounds ==
    /\ (fn = "pid" /\ ValidGains /\ ret.raised = "") => InBounds(ret.op)
    /\ (fn = "lstm" /\ ret.raised = "") => InBounds(ret.Q1c)

\* C5: lstm() invoked with fewer than window samples fails with the
\* readiness error and returns no numeric action.
C5_ShortWindowNotReady ==
    (fn = "lstm" /\ ret # NoRet /\ Len(args.Tsp_m) < window)
        => ret.raised = "WindowNotReadyError"

\* ------------------------------------------------------------------------
\* Setpoint schedule cells ("Generate data for training LSTM", "Generate SP
\* data for test")

\* end = 30; end = window + 15
TrainQuiet == 30
QuietExtra == 15
\* random.randint(240,600), random.randint(30,70), Tsp[-120:]
HoldMin == 240
HoldMax == 600
LevelMin == 30
LevelMax == 70
SettleLen == 120

\* Largest number of cycles the schedule cells are run with
MaxSchedLoops == 640

SchedLoops == {0, 1, 16, 17, 18, 29, 30, 31, 119, 121, 270, MaxSchedLoops}
Holds == {HoldMin, HoldMin + 1, HoldMax}
Levels == {F(LevelMin), F(LevelMax)}

Quiet(c) == IF c = "train" THEN TrainQuiet ELSE window + QuietExtra

Min(a, b) == IF a < b THEN a ELSE b
Max(a, b) == IF a > b THEN a ELSE b

\* A slice assignment that, like a list's, grows the array up to hi
SliceAssign_Grow(A, lo, hi, v) ==
    [k \in 1..Max(hi, Len(A)) |-> IF lo <= k - 1 /\ k - 1 < hi THEN v ELSE A[k]]

\* numpy's A[lo:hi] = v for 0 <= lo: the entries lo..hi-1 that exist are
\* set, the length does not change.  Arrays are sequences; entry k of the
\* array is A[k+1].
SliceAssign(A, lo, hi, v) ==
    [k \in 1..Len(A) |-> IF lo <= k - 1 /\ k - 1 < hi THEN v ELSE A[k]]

\* loops = int(60.0*run_time); Tsp = np.ones(loops) * lab.T1; end = ...
InitSched ==
    /\ \/ cell = "train" /\ NotTrained
       \/ cell = "test" /\ TrainedOnSample
    /\ \E g \in Gains : Kc = g[1] /\ tauI = g[2] /\ tauD = g[3]
    /\ FnIdle /\ LoopIdle
    /\ loops \in SchedLoops
    /\ roomT \in MeasVals
    /\ Tsp = [k \in 1..loops |-> roomT]
    /\ start = 0
    /\ end = Quiet(cell)
    /\ spc = "while"

\* while end <= loops: start = end; end += randint(240,600);
\*                     Tsp[start:end] = randint(30,70)
SchedHold ==
    /\ spc = "while" /\ end <= loops
    /\ start' = end
    /\ \E h \in Holds, lv \in Levels :
          /\ end' = end + h
          /\ Tsp' = SliceAssign(Tsp, end, end + h, lv)
    /\ UNCHANGED <<Kc, tauI, tauD, trainVars, fnVars, cell, spc, roomT, loops, loopVars>>

\* the while condition fails; the test cell goes on to Tsp[-120:] = Tsp[0]
SchedExit ==
    /\ spc = "while" /\ end > loops
    /\ spc' = IF cell = "test" THEN "settle" ELSE "done"
    /\ UNCHANGED <<Kc, tauI, tauD, trainVars, fnVars, cell, start, end, roomT, loops, Tsp, loopVars>>

\* Tsp[-120:] = Tsp[0]: Tsp[0] raises IndexError on an empty array
SchedSettle ==
    /\ spc = "settle"
    /\ IF loops = 0
       THEN spc' = "IndexError" /\ Tsp' = Tsp
       ELSE /\ spc' = "done"
            /\ Tsp' = SliceAssign(Tsp, Max(0, loops - SettleLen), loops, Tsp[1])
    /\ UNCHANGED <<Kc, tauI, tauD, trainVars, fnVars, cell, start, end, roomT, loops, loopVars>>

NextSched == SchedHold \/ SchedExit \/ SchedSettle

SpecSched == InitSched /\ [][NextSched]_vars

\* C7: the schedule has exactly loops entries, every entry of the initial
\* quiet period (the first Quiet(cell) ticks, or all of them when loops is
\* smaller) equals the base temperature, and a sampled hold that extends
\* past loops is truncated: it neither lengthens the schedule nor raises.
C7_ScheduleCoverage ==
    /\ Len(Tsp) = loops
    /\ \A k \in 1..Min(Quiet(cell), loops) : Tsp[k] = roomT
    /\ (start > 0 /\ end > loops) => spc \in {"while", "settle", "done"}

\* a hold was sampled that extends past the run length, and the cell is done
C7_Witness ==
    /\ spc = "done" /\ start > 0 /\ start < loops /\ end > loops
    /\ \E k \in 1..loops : Tsp[k] # roomT

\* ------------------------------------------------------------------------
\* Control loops: "Data collection", "Part A" (PID writes the heater, the
\* LSTM output is stored for comparison), "Part B" (the LSTM writes it)

\* Largest number of cycles of a control run, and the cycles of Part B
\* (loops = 300 against arrays of 2700 entries in the notebook)
MaxLoops == 4
PartBLoops == 2

TrainLens == 0..MaxLoops
TestLens == (PartBLoops + 1)..MaxLoops

\* Schedules of n entries: the room temperature, then one hold
LoopSchedules(n) ==
    {[j \in 1..n |-> IF j <= q THEN F(25) ELSE F(40)] : q \in 1..Max(n, 1)}

\* Unscaled predictions of the model during the runs
LoopPreds == {[raised |-> FALSE, y |-> F(40)], [raised |-> FALSE, y |-> F(250)]}

Zeros(n) == [j \in 1..n |-> Zero]

\* A[j] of Python for -Len(A) <= j < Len(A): a negative index counts from the end
At(A, j) == IF j < 0 THEN A[Len(A) + j + 1] ELSE A[j + 1]

\* A[lo:hi] for 0 <= lo <= hi
Slice(A, lo, hi) == SubSeq(A, lo + 1, Min(hi, Len(A)))

\* the period passed to tclab.clock: loops-1 in the data collection, loops
\* in Parts A and B.  The clock yields 0, 1, ..., period.
ClockPeriod == IF run = "collect" THEN loops - 1 ELSE loops

InLoop == pc \in {"clock", "read", "pid", "write", "lstm"}

\* The arrays as the cells before a run leave them: np.zeros(loops)
Init ==
    /\ \E g \in Gains : Kc = g[1] /\ tauI = g[2] /\ tauD = g[3]
    /\ FnIdle /\ SchedIdle
    /\ \/ run = "collect" /\ NotTrained /\ loops \in TrainLens
       \/ TrainedOnSample /\ run \in {"partA", "partB"} /\ loops \in TestLens
    /\ Tsp \in LoopSchedules(loops)
    /\ tm = Zeros(loops) /\ T1 = Zeros(loops)
    /\ Qpid = Zeros(loops) /\ Qlstm = Zeros(loops)
    /\ pc = "enter" /\ nyield = 0 /\ i = 0
    /\ t = Zero /\ prev_time = Zero /\ dt = Zero /\ ierr = Zero
    /\ heater = Zero /\ exc = "" /\ pidArgs = NoPidArgs /\ X = <<>>

\* with TCLab() as lab: ...; ierr = 0.0; prev_time = 0   (Part B: loops = 300 first)
Enter ==
    /\ pc = "enter"
    /\ pc' = "clock"
    /\ nyield' = 0
    /\ prev_time' = Zero
    /\ ierr' = IF run = "partB" THEN ierr ELSE Zero
    /\ loops' = IF run = "partB" THEN PartBLoops ELSE loops
    /\ exc' = ""
    /\ UNCHANGED <<Kc, tauI, tauD, trainVars, fnVars, schedVars, Tsp, run, i, t, dt, tm, T1,
                   Qpid, Qlstm, heater, pidArgs, X>>

\* for i,t in enumerate(tclab.clock(...)): tm[i] = t; dt = t - prev_time
\* The clock is exhausted after period+1 ticks; tm[i] = t raises IndexError
\* when i is not an index of tm.
Tick ==
    /\ pc = "clock"
    /\ IF nyield > ClockPeriod
       THEN /\ pc' = "exit"
            /\ UNCHANGED <<nyield, i, t, dt, tm, exc>>
       ELSE /\ nyield' = nyield + 1
            /\ i' = nyield
            /\ t' = F(nyield)
            /\ IF nyield >= Len(tm)
               THEN /\ exc' = "IndexError"
                    /\ pc' = "exit"
                    /\ UNCHANGED <<tm, dt>>
               ELSE /\ tm' = [tm EXCEPT ![nyield + 1] = F(nyield)]
                    /\ dt' = FSub(F(nyield), prev_time)
                    /\ pc' = "read"
                    /\ exc' = exc
    /\ UNCHANGED <<Kc, tauI, tauD, trainVars, fnVars, schedVars, loops, Tsp, run, prev_time, T1,
                   Qpid, Qlstm, ierr, heater, pidArgs, X>>

\* T1[i] = lab.T1
Read ==
    /\ pc = "read"
    /\ \E m \in MeasVals : T1' = [T1 EXCEPT ![i + 1] = m]
    /\ pc' = IF run = "partB" THEN "lstm" ELSE "pid"
    /\ UNCHANGED <<Kc, tauI, tauD, trainVars, fnVars, schedVars, loops, Tsp, run, nyield, i, t,
                   prev_time, dt, tm, Qpid, Qlstm, ierr, heater, exc, pidArgs, X>>

\* [Qpid[i],P,ierr,D] = pid(Tsp[i],T1[i],T1[i-1],ierr,dt)
\* (Q1 and Tsp1 in the data collection)
PidStep ==
    /\ pc = "pid"
    /\ pidArgs' = [sp |-> At(Tsp, i), pv |-> At(T1, i), pv_last |-> At(T1, i - 1),
                   ierr |-> ierr, dt |-> dt]
    /\ \E r \in {pid(At(Tsp, i), At(T1, i), At(T1, i - 1), ierr, dt)} :
          IF r.raised # ""
          THEN /\ exc' = r.raised
               /\ pc' = "exit"
               /\ UNCHANGED <<Qpid, ierr>>
          ELSE /\ Qpid' = [Qpid EXCEPT ![i + 1] = r.op]
               /\ ierr' = r.I
               /\ pc' = "write"
               /\ exc' = exc
    /\ UNCHANGED <<Kc, tauI, tauD, trainVars, fnVars, schedVars, loops, Tsp, run, nyield, i, t,
                   prev_time, dt, tm, T1, Qlstm, heater, X>>

\* every loop writing the PID array, as Part A does
Write_PidAlways ==
    /\ pc = "write"
    /\ heater' = At(Qpid, i)
    /\ IF run = "partA"
       THEN pc' = "lstm" /\ prev_time' = prev_time
       ELSE pc' = "clock" /\ prev_time' = t
    /\ UNCHANGED <<Kc, tauI, tauD, trainVars, fnVars, schedVars, loops, Tsp, run, nyield, i, t, dt,
                   tm, T1, Qpid, Qlstm, ierr, exc, pidArgs, X>>

\* lab.Q1(Qpid[i]) in the data collection and Part A, lab.Q1(Qlstm[i]) in
\* Part B; Part A goes on to the LSTM, the others end the tick with
\* prev_time = t.
Write ==
    /\ pc = "write"
    /\ heater' = IF run = "partB" THEN At(Qlstm, i) ELSE At(Qpid, i)
    /\ IF run = "partA"
       THEN pc' = "lstm" /\ prev_time' = prev_time
       ELSE pc' = "clock" /\ prev_time' = t
    /\ UNCHANGED <<Kc, tauI, tauD, trainVars, fnVars, schedVars, loops, Tsp, run, nyield, i, t, dt,
                   tm, T1, Qpid, Qlstm, ierr, exc, pidArgs, X>>

\* the window of the current and the window-1 preceding samples
LstmWindow_Current(A) == Slice(A, i - window + 1, i + 1)

\* T1[i-window:i], Tsp[i-window:i]
LstmWindow(A) == Slice(A, i - window, i)

\* the model action of the tick passed to the heater as soon as it is computed
LstmStep_Writes ==
    /\ pc = "lstm"
    /\ IF i >= window
       THEN \E out \in LoopPreds :
              \E r \in {lstm(LstmWindow(T1), LstmWindow(Tsp), out)} :
                 /\ Qlstm' = [Qlstm EXCEPT ![i + 1] = r.Q1c]
                 /\ X' = r.X
                 /\ heater' = r.Q1c
       ELSE UNCHANGED <<Qlstm, X, heater>>
    /\ IF run = "partA"
       THEN pc' = "clock" /\ prev_time' = t
       ELSE pc' = "write" /\ prev_time' = prev_time
    /\ UNCHANGED <<Kc, tauI, tauD, trainVars, fnVars, schedVars, loops, Tsp, run, nyield, i, t, dt,
                   tm, T1, Qpid, ierr, exc, pidArgs>>

\* if i >= window: Qlstm[i] = lstm(T1[i-window:i], Tsp[i-window:i])
\* Part A ends the tick with prev_time = t, Part B goes on to the write.
LstmStep ==
    /\ pc = "lstm"
    /\ IF i >= window
       THEN \E out \in LoopPreds :
              \E r \in {lstm(LstmWindow(T1), LstmWindow(Tsp), out)} :
                 /\ Qlstm' = [Qlstm EXCEPT ![i + 1] = r.Q1c]
                 /\ X' = r.X
       ELSE UNCHANGED <<Qlstm, X>>
    /\ IF run = "partA"
       THEN pc' = "clock" /\ prev_time' = t
       ELSE pc' = "write" /\ prev_time' = prev_time
    /\ UNCHANGED <<Kc, tauI, tauD, trainVars, fnVars, schedVars, loops, Tsp, run, nyield, i, t, dt,
                   tm, T1, Qpid, ierr, heater, exc, pidArgs>>

\* An exception inside the with-block: an error of a process read or write,
\* of the clock or of the model, or a KeyboardInterrupt
Raise ==
    /\ pc = "enter" \/ InLoop
    /\ exc' = "Error"
    /\ pc' = "exit"
    /\ UNCHANGED <<Kc, tauI, tauD, trainVars, fnVars, schedVars, loops, Tsp, run, nyield, i, t,
                   prev_time, dt, tm, T1, Qpid, Qlstm, ierr, heater, pidArgs, X>>

\* leaving the with-block without the device being closed
TCLabExit_NoClose ==
    /\ pc = "exit"
    /\ pc' = "done"
    /\ heater' = IF exc = "" THEN Zero ELSE heater
    /\ UNCHANGED <<Kc, tauI, tauD, trainVars, fnVars, schedVars, loops, Tsp, run, nyield, i, t,
                   prev_time, dt, tm, T1, Qpid, Qlstm, ierr, exc, pidArgs, X>>

\* leaving "with TCLab() as lab:", normally or by an exception: __exit__
\* closes the device, which writes Q1(0)
TCLabExit ==
    /\ pc = "exit"
    /\ pc' = "done"
    /\ heater' = Zero
    /\ UNCHANGED <<Kc, tauI, tauD, trainVars, fnVars, schedVars, loops, Tsp, run, nyield, i, t,
                   prev_time, dt, tm, T1, Qpid, Qlstm, ierr, exc, pidArgs, X>>

\* Part B is run after Part A, on the arrays Part A left
StartPartB ==
    /\ run = "partA" /\ pc = "done" /\ exc = "IndexError"
    /\ run' = "partB"
    /\ pc' = "enter"
    /\ UNCHANGED <<Kc, tauI, tauD, trainVars, fnVars, schedVars, loops, Tsp, nyield, i, t, prev_time,
                   dt, tm, T1, Qpid, Qlstm, ierr, heater, exc, pidArgs, X>>

\* The cells after a data collection that completed: df = Q1[:i], T1[:i],
\* Tsp1[:i] with i the index of the last tick; the scalers are fitted on it
\* and the windows are built (an empty df is not scaled)
Prepare ==
    /\ run = "collect" /\ pc = "done" /\ exc = "" /\ nyield >= 1 /\ i >= 1
    /\ pc' = "trained"
    /\ \E r \in {Prepared(T1, Tsp, Qpid, i)} :
          s_x' = r[1] /\ X_lstm' = r[2] /\ s_y' = r[3] /\ y_lstm' = r[4]
    /\ UNCHANGED <<Kc, tauI, tauD, fnVars, schedVars, loops, Tsp, run, nyield, i, t,
                   prev_time, dt, tm, T1, Qpid, Qlstm, ierr, heater, exc, pidArgs, X>>

Next ==
    \/ Enter \/ Tick \/ Read \/ PidStep \/ Write \/ LstmStep
    \/ Raise \/ TCLabExit \/ StartPartB \/ Prepare

Spec == Init /\ [][Next]_vars

\* ------------------------------------------------------------------------
\* Properties of the control loops (Spec)

PidRun == run \in {"collect", "partA"}

\* pid() has just returned for tick i
PidReturned == PidRun /\ pc = "write"

\* the raw output of the tick's pid() call was outside [oplo, ophi]
PidSaturatedCall ==
    /\ PidReturned
    /\ Saturated(PidTerms(pidArgs.sp, pidArgs.pv, pidArgs.pv_last,
                          pidArgs.ierr, pidArgs.dt).op)

\* C2: on a tick whose raw PID output is below 0 or above 100, the integral
\* pid() returns (with valid gains), which the loop carries as ierr, equals
\* the integral that was passed in for the tick.
C2_IntegralUnchangedWhenSaturated ==
    (ValidGains /\ PidSaturatedCall) => ierr = pidArgs.ierr

\* C3: every value written to the heater by lab.Q1, in the data collection,
\* in Part A and in Part B (ticks with i < window included), is within
\* [0,100].
C3_HeaterWritesWithinBounds == InBounds(heater)

\* Part B, run after Part A, has written the heater on a tick before the
\* window is full
C3_Witness ==
    /\ run = "partB" /\ pc = "clock" /\ nyield = i + 1 /\ i < window
    /\ prev_time = t /\ heater = At(Qlstm, i)
    /\ \E j \in 1..Len(Qpid) : Qpid[j] # Zero

\* C4: when a control run has ended, by completing its ticks, by an
\* exception in the middle of a tick or by an interruption, the last value
\* written to the heater is zero.
C4_HeaterOffAfterRun == pc = "done" => heater = Zero

\* a data collection that was interrupted after a tick that wrote a
\* non-zero power has ended
C4_Witness ==
    /\ run = "collect" /\ pc = "done" /\ exc = "Error"
    /\ i >= 1 /\ prev_time = t /\ At(Qpid, i) # Zero

\* lstm() has just returned for tick i
ModelRan ==
    /\ i >= window
    /\ \/ run = "partA" /\ pc = "clock" /\ prev_time = t /\ nyield = i + 1
       \/ run = "partB" /\ pc = "write"

\* the (setpoint, error) pair of tick j
PairOfTick(j) == <<At(Tsp, j), FSub(At(Tsp, j), At(T1, j))>>

\* C6 as stated: at a tick on which the model is run, the window handed to
\* it holds exactly window pairs, those of the window most recently read
\* samples (the one read on this tick is the last), oldest first.
C6_WindowOfMostRecentSamples ==
    ModelRan => /\ Len(X) = window
                /\ \A j \in 1..window : X[j] = PairOfTick(i - window + j)

\* C6: at a tick i on which the model is run, the window handed to it holds
\* exactly window pairs, those of the samples read on the ticks
\* i-window, ..., i-1 that precede it, oldest first; the sample read on
\* tick i is not in it.
C6_WindowOfPrecedingTicks ==
    ModelRan => /\ Len(X) = window
                /\ \A j \in 1..window : X[j] = PairOfTick(i - window + j - 1)

\* the model was run in Part B on a window whose last pair is not the pair
\* of the current tick
C6_Witness ==
    /\ ModelRan /\ run = "partB"
    /\ X[window] # PairOfTick(i)
    /\ X[1] # X[window]

\* C8: with Kc <= 0 or tauI <= 0 a PID run is rejected before any tick: no
\* tick is started, so nothing is read, computed or written.
C8_InvalidGainsRejected ==
    (PidRun /\ ~ValidGains) => (nyield = 0 /\ pc \notin {"read", "pid", "write", "lstm"})

\* C9: a data collection or Part A run over arrays of N entries uses the
\* tick indices 0..N-1 only, never indexes an array at N or beyond, and has
\* processed exactly N ticks when it ends without an interruption.
C9_ExactlyNTicks ==
    PidRun => /\ nyield <= Len(tm)
              /\ exc # "IndexError"
              /\ (pc = "done" /\ exc = "") => nyield = Len(tm)

\* C10: on the first tick of a PID run (with valid gains) the previous
\* measurement passed to pid() is the first measurement of the run.
C10_FirstTickPrevIsFirst ==
    (ValidGains /\ PidReturned /\ i = 0) => pidArgs.pv_last = pidArgs.pv

\* the heater write of tick i has just been made, in Part A or Part B
JustWrote ==
    \/ run = "partA" /\ pc = "lstm"
    \/ run = "partB" /\ pc = "clock" /\ nyield = i + 1 /\ prev_time = t

\* the value the previous tick of the run wrote to the heater (i >= 1)
PrevWritten == IF run = "partB" THEN At(Qlstm, i - 1) ELSE At(Qpid, i - 1)

\* no model action is stored for a tick before the window is full
NoModelActionBeforeWindow ==
    \A j \in 0..(window - 1) : j < Len(Qlstm) => At(Qlstm, j) = Zero

\* C11 as stated: on a tick before the window is full the model is not
\* invoked, and the value written to the heater is the PID action computed
\* on that tick or the value written on the previous tick of the run.
C11_HoldOrPidBeforeWindow ==
    /\ run \in {"partA", "partB"} => NoModelActionBeforeWindow
    /\ (JustWrote /\ i < window) =>
          \/ run = "partA" /\ heater = At(Qpid, i)
          \/ i >= 1 /\ heater = PrevWritten

\* C11: on a tick before the window is full the model is not invoked; the
\* value written to the heater is the PID action computed on that tick in
\* Part A, and in Part B the entry Qlstm[i] that no tick has written, the
\* 0.0 of the array's initialisation, which from the second tick on is also
\* the value the previous tick wrote.
C11_PidOrZeroBeforeWindow ==
    /\ run \in {"partA", "partB"} => NoModelActionBeforeWindow
    /\ (JustWrote /\ i < window) =>
          IF run = "partA" THEN heater = At(Qpid, i)
          ELSE /\ heater = At(Qlstm, i) /\ heater = Zero
               /\ i >= 1 => heater = PrevWritten

\* Part B, after a Part A run that stored a non-zero PID action for the
\* tick, has written the heater on its second tick, before the window is full
C11_Witness ==
    /\ run = "partB" /\ JustWrote /\ i >= 1 /\ i < window
    /\ At(Qpid, i) # Zero /\ At(T1, i) # Zero

\* One step of a Part A tick that does not leave the with-block: the steps
\* follow each other as timestamp, read, PID, heater write, model; the
\* write passes the tick's PID action and no other step changes the heater.
PartAStepInOrder ==
    (run = "partA" /\ run' = "partA" /\ InLoop /\ pc' # "exit") =>
        /\ pc = "clock" => pc' = "read" /\ At(tm', i') = t' /\ heater' = heater
        /\ pc = "read" => pc' = "pid" /\ heater' = heater
        /\ pc = "pid" => pc' = "write" /\ heater' = heater
        /\ pc = "write" => pc' = "lstm" /\ heater' = At(Qpid, i)
        /\ pc = "lstm" => pc' = "clock" /\ heater' = heater /\ Qpid' = Qpid

\* C12: in Part A every tick takes the timestamp, reads the measurement,
\* computes the PID action and writes the heater, in this order; the heater
\* is written once per tick, with the tick's PID action, and the model
\* action of the tick is stored in Qlstm[i] without being written to the
\* heater on this or a later tick of the run.
C12_PartAWritesPidOnly ==
    /\ []((run = "partA" /\ pc = "lstm") => heater = At(Qpid, i))
    /\ []((run = "partA" /\ pc = "clock" /\ nyield >= 1) => heater = At(Qpid, i))
    /\ [][PartAStepInOrder]_vars

\* Part A has finished a tick on which the model gave an action different
\* from the PID action that was written
C12_Witness ==
    /\ ModelRan /\ run = "partA"
    /\ heater = At(Qpid, i)
    /\ At(Qlstm, i) # Zero /\ At(Qlstm, i) # At(Qpid, i)

\* the (setpoint, error) pairs of the ticks j-window, ..., j-1, oldest first
WindowOfAction(j) == [q \in 1..window |-> PairOfTick(j - window + q - 1)]

\* the scaling cell has run on a completed data collection
Trained == run = "collect" /\ pc = "trained"

\* every training window is the scaled window of the ticks before its
\* label: window m belongs to the label Q1[window+m-1]
TrainingWindowsPrecedeLabel ==
    /\ Len(X_lstm) = Len(y_lstm)
    /\ Len(X_lstm) = (IF i > window THEN i - window ELSE 0)
    /\ \A m \in 1..Len(X_lstm) :
          /\ X_lstm[m] = Transform(s_x, WindowOfAction(window + m - 1))
          /\ y_lstm[m] = Transform(s_y, <<<<At(Qpid, window + m - 1)>>>>)[1]

\* s_x and s_y are the scalers the scaling cell fitted
ScalersAsFitted == s_x = SamplePrepared[1] /\ s_y = SamplePrepared[3]

\* a step of Part A or Part B leaves the scalers as they are
ScalersKept == run \in {"partA", "partB"} => UNCHANGED <<s_x, s_y>>

\* C13: for the action of tick i the control loops hand the model the
\* (setpoint, error) pairs of the ticks i-window, ..., i-1, oldest first,
\* with error = setpoint - measurement; the training windows are built the
\* same way, window Xs[j-window:j] for the label Q1[j]; and during Part A and
\* Part B the scalers are the ones fitted at training and no step changes
\* them.
C13_ControlWindowAsTrained ==
    /\ [](ModelRan => X = WindowOfAction(i))
    /\ [](Trained => TrainingWindowsPrecedeLabel)
    /\ [](run \in {"partA", "partB"} => ScalersAsFitted)
    /\ [][ScalersKept]_vars

\* the model was run in Part A on a window whose scaled rows differ, with
\* scalers that training fitted together with at least one training window
C13_Witness ==
    /\ ModelRan /\ run = "partA" /\ Len(X_lstm) >= 1
    /\ Transform(s_x, X)[1] # Transform(s_x, X)[window]
    /\ Transform(s_x, X)[window][1] # Transform(s_x, X)[window][2]

=============================================================================
